---- MODULE Spec2Model ----
(***************************************************************************)
(* pyenerginet: the request-and-reshape pipeline of EnerginetBaseClass     *)
(* (src/pyenerginet/base.py): _get_params, _base_request,                  *)
(* _select_columns_request and _pivot_request, with the pandas operations  *)
(* they call (set_index, drop, sort_index, tz_convert, truncate, pivot,    *)
(* droplevel, squeeze) modelled on tables whose cells are identified by    *)
(* the source row and the column they come from; and the public methods of *)
(* EnerginetData (src/pyenerginet/data.py) that do more than pass their    *)
(* arguments on: get_consumption_per_industry_code, get_elspot_prices and  *)
(* get_data for production actuals.                                        *)
(***************************************************************************)
EXTENDS Integers, Sequences, FiniteSets, TLC

VARIABLES
    pc,         \* position of the call: "call", "params", "fetched", "selected", "done"
    method,     \* "select" (_select_columns_request) or "pivot" (_pivot_request)
    start,      \* pd.Timestamp argument: [t |-> instant, tz |-> zone]
    end,        \* pd.Timestamp argument
    columns,    \* the columns argument: "all", one name, or a list of names
    filters,    \* the filters dict, in insertion order: Seq of [key, val]
    nv,         \* number of value columns the endpoint's records carry
    params,     \* the dict built by _get_params
    httpCalls,  \* number of session.get invocations made by this call
    response,   \* what session.get returned
    df,         \* the local variable df of the running method
    result,     \* what the call returned, or the exception it raised
    api,        \* the public method of EnerginetData that was called, or "base"
    args,       \* the arguments of the public method
    opc,        \* position of the public method
    warnings,   \* number of warn() calls so far
    url,        \* the dataset the request goes to
    version,    \* get_data: the local variable version
    validated,  \* get_data: the local variable validated
    held,       \* get_data: the local variable df
    out         \* what the public method returned, or the exception it raised

\* the state of the private request methods
reqVars == <<pc, method, start, end, columns, filters, nv, params, httpCalls,
             response, df, result>>
\* the state of the public method around them
pubVars == <<api, args, opc, warnings, url, version, validated, held, out>>

vars == <<reqVars, pubVars>>

-----------------------------------------------------------------------------
(* Bounds of the model.                                                    *)

\* instants are counted in ticks; a minute has TicksPerMinute ticks, so that
\* timestamps with a seconds component exist
TicksPerMinute == 2
\* instants range over 0..MaxT
MaxT == 2
\* longest list given as a filter value
MaxListLen == 2
\* most records in one HTTP response
MaxRows == 2
\* the settlement datasets cover the hours 0..MaxHours
MaxHours == 3
\* most records in one response of a settlement dataset
MaxDataRows == 4
\* the second UTC field of a record ranges over 0..MaxSecond
MaxSecond == 1

\* UTC offset, in minutes, of the zone the request bounds are formatted in
CETOffsetMinutes == 60
\* the same during summer time
CESTOffsetMinutes == 120
\* the zone "CET" observes summer time: the modelled instants lie around the
\* spring change, which falls on the start of the second minute
SummerTimeStart == TicksPerMinute

\* the UTC offset of the zone "CET" at an instant
CETOffsetAt(t) == IF t < SummerTimeStart THEN CETOffsetMinutes ELSE CESTOffsetMinutes

Instants == 0..MaxT
SecondInstants == 0..MaxSecond
Zones == {"UTC", "CET"}
Timestamps == [t : Instants, tz : Zones]

\* the filter keys of the modelled endpoints, in the order the public methods
\* put them in the filters dict
FilterKeys == <<"PriceArea", "ForecastType">>
\* the discriminator values present in the served data
KeyValues(key) ==
    CASE key = "PriceArea" -> <<"DK1", "DK2">>
      [] key = "DK36Code"  -> <<"CH", "CA">>
      [] key = "DK19Code"  -> <<"B", "C">>
      [] OTHER             -> <<"Onshore Wind", "Offshore Wind">>
\* the same values in sorted order, the order in which unstack stores the
\* values of a level and lays out the columns of a table pivoted on one key
SortedValues(key) ==
    CASE key = "PriceArea" -> <<"DK1", "DK2">>
      [] key = "DK36Code"  -> <<"CA", "CH">>
      [] key = "DK19Code"  -> <<"B", "C">>
      [] OTHER             -> <<"Offshore Wind", "Onshore Wind">>
\* the value columns of the served data
ValueCols == <<"V1", "V2">>

-----------------------------------------------------------------------------
(* Small sequence helpers.                                                 *)

Range(s) == {s[i] : i \in 1..Len(s)}

RECURSIVE Concat(_)
Concat(ss) == IF ss = <<>> THEN <<>> ELSE Head(ss) \o Concat(Tail(ss))

\* Python's sep.join(parts) on sequences of tokens
RECURSIVE Join(_, _)
Join(sep, parts) ==
    IF parts = <<>> THEN <<>>
    ELSE IF Len(parts) = 1 THEN parts[1]
    ELSE parts[1] \o sep \o Join(sep, Tail(parts))

\* all sequences over S of length at most n
RECURSIVE SeqsUpTo(_, _)
SeqsUpTo(S, n) ==
    IF n = 0 THEN {<<>>}
    ELSE SeqsUpTo(S, n - 1) \cup
         {Append(s, x) : s \in {q \in SeqsUpTo(S, n - 1) : Len(q) = n - 1}, x \in S}

\* all sequences over S without repetition, of length at most n
SeqsNoRep(S, n) ==
    {q \in SeqsUpTo(S, n) : \A i, j \in 1..Len(q) : i # j => q[i] # q[j]}

-----------------------------------------------------------------------------
(* Filter values and str().                                                *)

\* a scalar given as a filter value: a string, or an integer such as a
\* municipality number
StrVal(s) == [ty |-> "str", s |-> s, n |-> 0]
IntVal(n) == [ty |-> "int", s |-> "", n |-> n]

DigitChars == <<"0", "1", "2", "3", "4", "5", "6", "7", "8", "9">>

RECURSIVE IntToStr(_)
IntToStr(n) == IF n < 10 THEN DigitChars[n + 1]
               ELSE IntToStr(n \div 10) \o DigitChars[(n % 10) + 1]

\* str(vv)
Str(v) == IF v.ty = "int" THEN IntToStr(v.n) ELSE v.s

\* the value of one filters entry: None, a scalar, or a list
NoneVal == [kind |-> "none", vs |-> <<>>]
ScalarVal(v) == [kind |-> "scalar", vs |-> <<v>>]
ListVal(vs) == [kind |-> "list", vs |-> vs]

-----------------------------------------------------------------------------
(* _get_params                                                             *)

\* one character of the filter string that is not part of a name or a value
QUOTE == "\""

\* start.tz_convert("CET").strftime("%Y-%m-%dT%H:%M"): the wall-clock minute
\* in the reference zone; seconds are not printed
FormatMinute(ts) ==
    [zone |-> "CET", minute |-> (ts.t \div TicksPerMinute) + CETOffsetAt(ts.t)]

\* v = [v] if not isinstance(v, list) else v;
\* vlist = '","'.join([str(vv) for vv in v]);  f'"{k}":["{vlist}"]'
FilterEntry(k, val) ==
    <<QUOTE, k, QUOTE, ":", "[", QUOTE>>
        \o Join(<<QUOTE, ",", QUOTE>>, [i \in 1..Len(val.vs) |-> <<Str(val.vs[i])>>])
        \o <<QUOTE, "]">>

\* the loop over filters.items(): one entry per value that is not None
RECURSIVE FilterList(_)
FilterList(fs) ==
    IF fs = <<>> THEN <<>>
    ELSE (IF fs[1].val.kind # "none"
          THEN <<FilterEntry(fs[1].key, fs[1].val)>> ELSE <<>>)
         \o FilterList(Tail(fs))

\* the params dict; hasFilter is '"filter" in params'
GetParamsDict(s, e, fs) ==
    LET filter_list == FilterList(fs)
    IN  [offset    |-> 0,
         start     |-> FormatMinute(s),
         end       |-> FormatMinute(e),
         hasFilter |-> Len(filter_list) # 0,
         filter    |-> IF Len(filter_list) # 0
                       THEN <<"{">> \o Join(<<",">>, filter_list) \o <<"}">>
                       ELSE <<>>]

NoParams == [offset |-> 0, start |-> [zone |-> "CET", minute |-> 0],
             end |-> [zone |-> "CET", minute |-> 0],
             hasFilter |-> FALSE, filter |-> <<>>]

-----------------------------------------------------------------------------
(* The API behind session.get: how it reads the filter parameter and which *)
(* records it may answer with.                                             *)

\* re.findall(r'"(.*?)"', s): the texts between the 1st and 2nd quote, the
\* 3rd and 4th, and so on, scanning from position i
RECURSIVE FindAllQuoted(_, _)
FindAllQuoted(tok, i) ==
    IF i > Len(tok) THEN <<>>
    ELSE IF tok[i] # QUOTE THEN FindAllQuoted(tok, i + 1)
    ELSE LET closing == {j \in (i + 1)..Len(tok) : tok[j] = QUOTE}
         IN  IF closing = {} THEN <<>>
             ELSE LET j == CHOOSE x \in closing : \A y \in closing : x <= y
                  IN  <<SubSeq(tok, i + 1, j - 1)>> \o FindAllQuoted(tok, j + 1)

\* the quoted strings of a JSON array, from the opening quote at position i
RECURSIVE ParseValues(_, _)
ParseValues(tok, i) ==
    LET isEmpty == tok[i + 1] = QUOTE
        v == IF isEmpty THEN "" ELSE tok[i + 1]
        j == IF isEmpty THEN i + 2 ELSE i + 3
    IN  IF j <= Len(tok) /\ tok[j] = ","
        THEN LET rest == ParseValues(tok, j + 1)
             IN  [vals |-> <<v>> \o rest.vals, next |-> rest.next]
        ELSE [vals |-> <<v>>, next |-> j + 1]

\* the entries "key":[...] of the filter object, from the quote at position i
RECURSIVE ParseEntries(_, _)
ParseEntries(tok, i) ==
    LET vs == ParseValues(tok, i + 5)
    IN  <<[key |-> tok[i + 1], values |-> vs.vals]>>
        \o (IF vs.next <= Len(tok) /\ tok[vs.next] = ","
            THEN ParseEntries(tok, vs.next + 1) ELSE <<>>)

\* the filter parameter read back as the API reads it: key -> permitted strings
ParseFilter(tok) == IF tok = <<>> THEN <<>> ELSE ParseEntries(tok, 2)

\* the discriminator columns of the endpoint a call addresses: the keys of its
\* filters dict
EndpointKeys(fs) == [i \in 1..Len(fs) |-> fs[i].key]

\* one record of the served data: its UTC instant, the instant in its second
\* UTC field if it has one (0 otherwise) and its discriminator values
Cells(fs) ==
    [t : Instants, t2 : {0},
     k : {f \in [Range(EndpointKeys(fs)) ->
                    UNION {Range(KeyValues(key)) : key \in Range(EndpointKeys(fs))}] :
            \A key \in Range(EndpointKeys(fs)) : f[key] \in Range(KeyValues(key))}]

\* the API answers with records that satisfy the filter parameter
ServerMatches(cell, p) ==
    \A i \in 1..Len(ParseFilter(p.filter)) :
        LET e == ParseFilter(p.filter)[i]
        IN  e.key \in DOMAIN cell.k => cell.k[e.key] \in Range(e.values)

\* the records of a dataset that carries two UTC fields
TwoTimeCells(fs) ==
    {[t |-> c.t, t2 |-> t2, k |-> c.k] : c \in Cells(fs), t2 \in SecondInstants}

\* shapes of the value under "records" in the JSON body
RecordShapes == {"list", "columns", "missing", "null", "scalar"}

\* what session.get may return for a request
Responses(fs, p) ==
    LET matching == {c \in Cells(fs) : ServerMatches(c, p)}
        bodies == SeqsNoRep(matching, MaxRows)
    IN  {[status |-> "ok", records |-> "list", hasUTC |-> TRUE, utc2 |-> FALSE,
          hasDK |-> TRUE, rows |-> rows] : rows \in bodies}
        \cup {[status |-> "ok", records |-> "columns", hasUTC |-> TRUE, utc2 |-> FALSE,
               hasDK |-> TRUE, rows |-> rows] :
                rows \in {b \in bodies : Len(b) <= 1}}
        \cup {[status |-> "ok", records |-> "list", hasUTC |-> ud[1],
               utc2 |-> FALSE, hasDK |-> ud[2], rows |-> rows] :
                ud \in {<<TRUE, FALSE>>, <<FALSE, TRUE>>, <<FALSE, FALSE>>},
                rows \in {b \in bodies : Len(b) = 1}}
        \cup {[status |-> "ok", records |-> shape, hasUTC |-> TRUE, utc2 |-> FALSE,
               hasDK |-> TRUE, rows |-> <<>>] : shape \in {"missing", "null", "scalar"}}
        \cup {[status |-> st, records |-> "missing", hasUTC |-> TRUE, utc2 |-> FALSE,
               hasDK |-> TRUE, rows |-> <<>>] : st \in {"http_error", "conn_error"}}

\* an hour, in ticks
Hour == 60 * TicksPerMinute

\* the settlement datasets behind get_prod_cons hold one record per hour and
\* price area
DataInstants == {h * Hour : h \in 0..MaxHours}

HourlyCells(fs) ==
    {[t |-> t, t2 |-> 0, k |-> c.k] : t \in DataInstants, c \in Cells(fs)}

\* the place of a record in the order the dataset is served in
CellRank(fs, c) ==
    LET areas == KeyValues(EndpointKeys(fs)[1])
    IN  c.t * Len(areas) + CHOOSE i \in 1..Len(areas) : areas[i] = c.k[EndpointKeys(fs)[1]]

RECURSIVE InServedOrder(_, _)
InServedOrder(fs, S) ==
    IF S = {} THEN <<>>
    ELSE LET m == CHOOSE c \in S : \A d \in S : CellRank(fs, c) <= CellRank(fs, d)
         IN  <<m>> \o InServedOrder(fs, S \ {m})

\* what session.get may return for a request to a settlement dataset: up to
\* MaxDataRows of its records that satisfy the filter, or a failure
DataResponses(fs, p) ==
    LET matching == {c \in HourlyCells(fs) : ServerMatches(c, p)}
    IN  {[status |-> "ok", records |-> "list", hasUTC |-> TRUE, utc2 |-> FALSE,
          hasDK |-> TRUE, rows |-> InServedOrder(fs, S)] :
            S \in {T \in SUBSET matching : Cardinality(T) <= MaxDataRows}}
        \cup {[status |-> st, records |-> "missing", hasUTC |-> TRUE, utc2 |-> FALSE,
               hasDK |-> TRUE, rows |-> <<>>] : st \in {"http_error", "conn_error"}}

\* the datasets of get_prod_cons: validated settlement data and provisional data
ValidatedUrl == "ProductionConsumptionSettlement"
UnvalidatedUrl == "ElectricityBalanceNonv"

\* a dataset whose records carry two UTC fields
TwoTimeUrl == "dataset of two UTC fields"

\* what session.get may return for a request to such a dataset: records in any
\* order, with or without the local-time fields, or a failure
TwoTimeResponses(fs, p) ==
    LET matching == {c \in TwoTimeCells(fs) : ServerMatches(c, p)}
    IN  {[status |-> "ok", records |-> "list", hasUTC |-> TRUE, utc2 |-> TRUE,
          hasDK |-> TRUE, rows |-> rows] : rows \in SeqsNoRep(matching, MaxRows)}
        \cup {[status |-> "ok", records |-> "list", hasUTC |-> TRUE, utc2 |-> TRUE,
               hasDK |-> FALSE, rows |-> rows] :
                rows \in {b \in SeqsNoRep(matching, MaxRows) : Len(b) = 1}}
        \cup {[status |-> st, records |-> "missing", hasUTC |-> TRUE,
               utc2 |-> TRUE, hasDK |-> TRUE, rows |-> <<>>] :
                st \in {"http_error", "conn_error"}}

\* columns=tech_names[tech] of get_data: the column of a technology in the
\* validated dataset and in the provisional one
TechNamesValidated(tech) ==
    CASE tech = "ofw" -> "OffshoreWindGe100MW_MWh"
      [] tech = "onw" -> "OnshoreWindGe50kW_MWh"
      [] OTHER        -> "SolarPowerGe40kW_MWh"
TechNamesUnvalidated(tech) ==
    CASE tech = "ofw" -> "OffshoreWindPower"
      [] tech = "onw" -> "OnshoreWindPower"
      [] OTHER        -> "SolarPower"

\* the value columns of the records of the dataset u
ValueColsOf(u) ==
    CASE u = ValidatedUrl   -> <<TechNamesValidated("ofw"), TechNamesValidated("onw")>>
      [] u = UnvalidatedUrl -> <<TechNamesUnvalidated("ofw"), TechNamesUnvalidated("onw")>>
      [] OTHER              -> ValueCols

\* what session.get may return for a request to the dataset u
Served(u, fs, p) ==
    IF u \in {ValidatedUrl, UnvalidatedUrl} THEN DataResponses(fs, p)
    ELSE IF u = TwoTimeUrl THEN TwoTimeResponses(fs, p)
    ELSE Responses(fs, p)

NoResponse == [status |-> "none", records |-> "missing", hasUTC |-> TRUE,
               utc2 |-> FALSE, hasDK |-> TRUE, rows |-> <<>>]

-----------------------------------------------------------------------------
(* Tables.  A frame is a pandas object: kind "DataFrame", "Series" (one    *)
(* column, indexed by time), "RowSeries" (one row, indexed by the column   *)
(* labels), "Scalar" (one cell) or "Error" (an exception was raised).      *)
(* index holds the instants of the rows, keys the discriminator values of  *)
(* the record each row comes from, cols the column labels as tuples (one   *)
(* label per level), levels what columns.levels stores for a MultiIndex.   *)
(* The index of a table built from two UTC fields is a MultiIndex: index   *)
(* is its first level, in the zone tz, index2 its second level, in the     *)
(* zone tz2; tz2 is "" and index2 empty when the index has one level.      *)
(* In what get_data puts together from two datasets, keys holds the        *)
(* dataset each row comes from, and the kind "MixedIndex" is a series      *)
(* whose index holds column labels after its timestamps.                   *)

Frame(kind, tz, index, keys, cols, multi, levels, names) ==
    [kind |-> kind, tz |-> tz, index |-> index, tz2 |-> "", index2 |-> <<>>,
     keys |-> keys, cols |-> cols, multi |-> multi, levels |-> levels,
     names |-> names, err |-> ""]

Raise(e) ==
    [kind |-> "Error", tz |-> "", index |-> <<>>, tz2 |-> "", index2 |-> <<>>,
     keys |-> <<>>, cols |-> <<>>, multi |-> FALSE, levels |-> <<>>,
     names |-> <<>>, err |-> e]

\* the index of f is a MultiIndex of two time levels
Composite(f) == f.tz2 # ""

NoFrame == Raise("")

IsError(f) == f.kind = "Error"

\* labels of a flat column Index
FlatCols(names) == [i \in 1..Len(names) |-> <<names[i]>>]

\* the rows of f at the positions listed in pos
TakeRows(f, pos) ==
    [f EXCEPT !.index  = [i \in 1..Len(pos) |-> f.index[pos[i]]],
              !.index2 = IF Composite(f)
                         THEN [i \in 1..Len(pos) |-> f.index2[pos[i]]] ELSE <<>>,
              !.keys   = [i \in 1..Len(pos) |-> f.keys[pos[i]]]]

\* df.drop(columns=names): KeyError when a name is not a column
DropColumns(f, names) ==
    IF \E n \in Range(names) : <<n>> \notin Range(f.cols)
    THEN Raise("KeyError")
    ELSE [f EXCEPT !.cols = SelectSeq(f.cols, LAMBDA c : c[1] \notin Range(names))]

\* rows i and j of f have the same index value, on every level
SameIndex(f, i, j) ==
    /\ f.index[i] = f.index[j]
    /\ Composite(f) => f.index2[i] = f.index2[j]

\* the index value of row i comes before that of row j: by the first level,
\* then by the second
IndexBefore(f, i, j) ==
    \/ f.index[i] < f.index[j]
    \/ /\ f.index[i] = f.index[j]
       /\ Composite(f) /\ f.index2[i] < f.index2[j]

\* positions 1..n ordered by index value, equal values in their given order
RECURSIVE SortedPositions(_, _)
SortedPositions(f, todo) ==
    IF todo = {} THEN <<>>
    ELSE LET m == CHOOSE i \in todo :
                    \A j \in todo : IndexBefore(f, i, j)
                                    \/ (SameIndex(f, i, j) /\ i <= j)
         IN  <<m>> \o SortedPositions(f, todo \ {m})

\* df.sort_index()
SortIndex(f) ==
    IF IsError(f) THEN f
    ELSE TakeRows(f, SortedPositions(f, 1..Len(f.index)))

-----------------------------------------------------------------------------
(* _base_request                                                           *)

\* the UTC timestamp field of a record, the second one some datasets carry,
\* and the local-time fields beside them
TimeField == "HourUTC"
SecondTimeField == "TimestampUTC"
\* col.replace("UTC", "DK")
DkName(col) ==
    CASE col = "HourUTC"      -> "HourDK"
      [] col = "TimestampUTC" -> "TimestampDK"
      [] OTHER                -> col

\* session.get raises on a network failure
SessionGetError(resp) == IF resp.status = "conn_error" THEN "ConnectionError" ELSE ""

\* r.raise_for_status()
RaiseForStatusSwallow(resp) == ""
RaiseForStatus(resp) == IF resp.status = "http_error" THEN "HTTPError" ELSE ""

\* the field names of the records, in order
RecordFields(resp, fs, n, u) ==
    (IF resp.hasUTC THEN <<TimeField>> ELSE <<>>)
    \o (IF resp.hasDK THEN <<DkName(TimeField)>> ELSE <<>>)
    \o EndpointKeys(fs) \o SubSeq(ValueColsOf(u), 1, n)
    \o (IF resp.utc2 THEN <<SecondTimeField>> ELSE <<>>)
    \o (IF resp.utc2 /\ resp.hasDK THEN <<DkName(SecondTimeField)>> ELSE <<>>)

\* pd.DataFrame(r.json()["records"]): a list of records or an object of
\* column arrays gives a table (with no columns at all for an empty list),
\* None gives an empty table, a number or a string is refused
DataFrameOf(resp, fs, n, u) ==
    CASE resp.records = "missing" -> Raise("KeyError")
      [] resp.records = "scalar"  -> Raise("ValueError")
      [] resp.records = "null"    ->
            Frame("DataFrame", "naive", <<>>, <<>>, <<>>, FALSE, <<>>, <<>>)
      [] resp.records = "list" /\ resp.rows = <<>> ->
            Frame("DataFrame", "naive", <<>>, <<>>, <<>>, FALSE, <<>>, <<>>)
      [] OTHER ->
            [Frame("DataFrame", "naive",
                   [i \in 1..Len(resp.rows) |-> resp.rows[i].t],
                   [i \in 1..Len(resp.rows) |-> resp.rows[i].k],
                   FlatCols(RecordFields(resp, fs, n, u)), FALSE, <<>>, <<>>)
                EXCEPT !.index2 = IF resp.utc2
                                  THEN [i \in 1..Len(resp.rows) |-> resp.rows[i].t2]
                                  ELSE <<>>]

\* time_cols = [col for col in df.columns if "UTC" in col]
TimeCols(f) == SelectSeq(f.cols, LAMBDA c : c[1] \in {TimeField, SecondTimeField})

\* dk_time_cols = [col.replace("UTC", "DK") for col in time_cols]
DkTimeCols(f) ==
    IF IsError(f) THEN <<>>
    ELSE [i \in 1..Len(TimeCols(f)) |-> DkName(TimeCols(f)[i][1])]

\* pd.to_datetime(...).dt.tz_localize("UTC"); df.set_index(time_cols, drop=True):
\* set_index refuses an empty list of columns; two columns make a MultiIndex
\* of two levels, both in UTC
SetIndex(f) ==
    IF IsError(f) THEN f
    ELSE IF TimeCols(f) = <<>> THEN Raise("ValueError")
    ELSE [f EXCEPT !.tz = "UTC",
                   !.tz2 = IF Len(TimeCols(f)) = 2 THEN "UTC" ELSE "",
                   !.cols = SelectSeq(f.cols, LAMBDA c : c \notin Range(TimeCols(f))),
                   !.names = <<>>]

\* .drop(columns=dk_time_cols)
DropLocalTime(f, dk_time_cols) ==
    IF IsError(f) THEN f ELSE DropColumns(f, dk_time_cols)

\* the column name a quoted text of the filter string denotes
TextOf(content) == IF Len(content) = 1 THEN content[1] ELSE ""

\* to_drop = re.findall(r'"(.*?)"', params["filter"])[0]
ToDrop(p) == <<TextOf(FindAllQuoted(p.filter, 1)[1])>>

\* if "filter" in params: df = df.drop(columns=to_drop)
DropFiltered(f, p) ==
    IF IsError(f) \/ ~p.hasFilter THEN f ELSE DropColumns(f, ToDrop(p))

\* the whole of _base_request on the response resp
BaseRequestFrame(resp, p, fs, n, u) ==
    IF SessionGetError(resp) # "" THEN Raise(SessionGetError(resp))
    ELSE IF RaiseForStatus(resp) # "" THEN Raise(RaiseForStatus(resp))
    ELSE LET raw == DataFrameOf(resp, fs, n, u)
         IN  SortIndex(DropFiltered(DropLocalTime(SetIndex(raw), DkTimeCols(raw)), p))

-----------------------------------------------------------------------------
(* _select_columns_request                                                 *)

\* DataFrame.squeeze() / Series.squeeze(): every axis of length one is dropped
Squeeze(f) ==
    CASE f.kind = "DataFrame" /\ Len(f.cols) = 1 /\ Len(f.index) = 1 ->
            [f EXCEPT !.kind = "Scalar"]
      [] f.kind = "DataFrame" /\ Len(f.cols) = 1 ->
            [f EXCEPT !.kind = "Series", !.multi = FALSE, !.levels = <<>>,
                      !.names = <<>>]
      [] f.kind = "DataFrame" /\ Len(f.index) = 1 ->
            [f EXCEPT !.kind = "RowSeries"]
      [] f.kind \in {"Series", "RowSeries"}
            /\ (IF f.kind = "Series" THEN Len(f.index) ELSE Len(f.cols)) = 1 ->
            [f EXCEPT !.kind = "Scalar"]
      [] OTHER -> f

\* level = 0 if isinstance(df.index, pd.MultiIndex) else None;
\* df.tz_convert(start.tz, level=level): the instants stay, the zone of the
\* index changes, of its first level only when it is a MultiIndex
TzConvert(f, tz) == IF IsError(f) THEN f ELSE [f EXCEPT !.tz = tz]

\* df.truncate(start, end): refuses before > after; keeps before <= t <= after,
\* t being the first level of a MultiIndex
TruncateOpenEnd(f, s, e) ==
    IF IsError(f) THEN f
    ELSE IF s.t > e.t THEN Raise("ValueError")
    ELSE TakeRows(f, SelectSeq([i \in 1..Len(f.index) |-> i],
                               LAMBDA i : s.t <= f.index[i] /\ f.index[i] < e.t))
Truncate(f, s, e) ==
    IF IsError(f) THEN f
    ELSE IF s.t > e.t THEN Raise("ValueError")
    ELSE TakeRows(f, SelectSeq([i \in 1..Len(f.index) |-> i],
                               LAMBDA i : s.t <= f.index[i] /\ f.index[i] <= e.t))

\* the columns argument
AllColumns == [kind |-> "all", names |-> <<>>]
OneColumn(c) == [kind |-> "name", names |-> <<c>>]
ColumnList(cs) == [kind |-> "list", names |-> cs]

\* the column tuples of f whose first label is c, in order
WithFirst(f, c) == SelectSeq(f.cols, LAMBDA t : t[1] = c)

\* df[columns] for a DataFrame df: a name selects one column of a flat axis
\* (a Series) or the block under a first-level label of a MultiIndex (that
\* level is dropped, the levels that stay keep their names); a list selects
\* the named columns or blocks and keeps the axis as it is, unused level
\* values included
GetItem(f, cols) ==
    IF IsError(f) THEN f
    ELSE IF \E c \in Range(cols.names) : WithFirst(f, c) = <<>> THEN Raise("KeyError")
    ELSE IF cols.kind = "list"
         THEN [f EXCEPT !.cols = Concat([i \in 1..Len(cols.names) |->
                                            WithFirst(f, cols.names[i])])]
    ELSE IF ~f.multi
         THEN [f EXCEPT !.kind = "Series", !.cols = WithFirst(f, cols.names[1])]
    ELSE LET sub == WithFirst(f, cols.names[1])
         IN  [f EXCEPT !.cols   = [i \in 1..Len(sub) |-> Tail(sub[i])],
                       !.multi  = Len(f.levels) > 2,
                       !.levels = IF Len(f.levels) > 2 THEN Tail(f.levels) ELSE <<>>,
                       !.names  = Tail(f.names)]

\* the body of _select_columns_request after _base_request returned f
SelectColumnsFrame(f, s, e, cols) ==
    LET t == Truncate(TzConvert(f, s.tz), s, e)
        c == IF cols.kind # "all" THEN GetItem(t, cols) ELSE t
    IN  IF IsError(c) THEN c ELSE Squeeze(c)

-----------------------------------------------------------------------------
(* _pivot_request                                                          *)

\* pivot_keys = [key for key in list(filters.keys()) if key in df.columns]
PivotKeys(f, fs) ==
    SelectSeq(EndpointKeys(fs), LAMBDA key : <<key>> \in Range(f.cols))

\* the discriminator values of row i of f under the keys pk
ComboOf(f, pk, i) == [n \in 1..Len(pk) |-> f.keys[i][pk[n]]]

\* every combination of values of the keys pk, in sorted order
RECURSIVE AllCombos(_)
AllCombos(pk) ==
    IF pk = <<>> THEN <<<<>>>>
    ELSE LET rest == AllCombos(Tail(pk))
             vals == SortedValues(Head(pk))
         IN  Concat([i \in 1..Len(vals) |->
                        [j \in 1..Len(rest) |-> <<vals[i]>> \o rest[j]]])

\* the rows of f that are the first with their values of the keys pk
FirstOccurrences(f, pk) ==
    SelectSeq([i \in 1..Len(f.index) |-> i],
              LAMBDA i : \A j \in 1..(i - 1) : ComboOf(f, pk, j) # ComboOf(f, pk, i))

\* the combinations that occur in f, in the order unstack gives their columns:
\* the values of a single key in sorted order; the combinations of several keys
\* in the order in which they first occur in the rows
ObservedCombos(f, pk) ==
    IF Len(pk) <= 1
    THEN SelectSeq(AllCombos(pk),
                   LAMBDA c : \E i \in 1..Len(f.index) : ComboOf(f, pk, i) = c)
    ELSE [k \in 1..Len(FirstOccurrences(f, pk)) |->
            ComboOf(f, pk, FirstOccurrences(f, pk)[k])]

\* the rows of a sorted table that are the first with their index value
Unique(f) ==
    SelectSeq([i \in 1..Len(f.index) |-> i],
              LAMBDA i : \A j \in 1..(i - 1) : ~SameIndex(f, i, j))

\* the rows of f share an index value and the values of the keys pk
HasDuplicateEntries(f, pk) ==
    \E i, j \in 1..Len(f.index) :
        i # j /\ SameIndex(f, i, j) /\ ComboOf(f, pk, i) = ComboOf(f, pk, j)

\* df.pivot(columns=pivot_keys): set_index(pivot_keys, append=True).unstack(...).
\* The columns become a MultiIndex: the remaining columns on the first level,
\* one level per pivot key holding, in sorted order, the values that occur.
\* Two rows with the same index value and key values cannot be reshaped.  What
\* pandas does with a table of no rows is left open: emptyRaises says whether
\* it refuses.
Pivot(f, pk, emptyRaises) ==
    IF HasDuplicateEntries(f, pk) THEN Raise("ValueError")
    ELSE IF Len(f.index) = 0 /\ emptyRaises THEN Raise("ValueError")
    ELSE LET rest   == SelectSeq(f.cols, LAMBDA c : c[1] \notin Range(pk))
             combos == ObservedCombos(f, pk)
             times  == TakeRows(f, Unique(f))
         IN  [times EXCEPT
                !.keys   = [i \in 1..Len(times.index) |-> <<>>],
                !.cols   = Concat([i \in 1..Len(rest) |->
                                [j \in 1..Len(combos) |-> rest[i] \o combos[j]]]),
                !.multi  = TRUE,
                !.levels = <<[i \in 1..Len(rest) |-> rest[i][1]]>>
                             \o [n \in 1..Len(pk) |->
                                   SelectSeq(SortedValues(pk[n]),
                                             LAMBDA v : \E j \in 1..Len(combos) :
                                                            combos[j][n] = v)],
                !.names  = <<"">> \o pk]

\* a tuple without its l-th label
Without(t, l) == SubSeq(t, 1, l - 1) \o SubSeq(t, l + 1, Len(t))

\* df.droplevel(l - 1, axis=1): with two levels a flat Index is left, named
\* after the level that stays
DropLevel(f, l) ==
    [f EXCEPT !.cols   = [i \in 1..Len(f.cols) |-> Without(f.cols[i], l)],
              !.multi  = Len(f.levels) > 2,
              !.levels = IF Len(f.levels) > 2 THEN Without(f.levels, l) ELSE <<>>,
              !.names  = Without(f.names, l)]

\* for i in range(len(df.columns.levels)):
\*     if len(df.columns.levels[i]) == 1: df = df.droplevel(i, axis=1)
\* with i counted from 0 and n fixed when the loop starts; .levels does not
\* exist on a flat Index and levels[i] not beyond the last level
RECURSIVE CollapseLoop(_, _, _)
CollapseLoop(f, i, n) ==
    IF i = n THEN f
    ELSE IF ~f.multi THEN Raise("AttributeError")
    ELSE IF i + 1 > Len(f.levels) THEN Raise("IndexError")
    ELSE IF Len(f.levels[i + 1]) = 1 THEN CollapseLoop(DropLevel(f, i + 1), i + 1, n)
    ELSE CollapseLoop(f, i + 1, n)

\* the body of _pivot_request after _select_columns_request returned sel
PivotRequestFrame(sel, fs, cols, emptyRaises) ==
    LET pk == PivotKeys(sel, fs)
        p  == IF sel.kind = "DataFrame" /\ pk # <<>>
              THEN Pivot(sel, pk, emptyRaises) ELSE sel
        c  == IF sel.kind = "DataFrame" /\ cols.kind # "all"
              THEN GetItem(p, cols) ELSE p
        d  == IF c.kind = "DataFrame" /\ c.multi
              THEN CollapseLoop(c, 0, Len(c.levels)) ELSE c
    IN  IF IsError(d) THEN d ELSE Squeeze(d)

-----------------------------------------------------------------------------
(* The calls.                                                              *)

\* the values a filters entry may take, for a key with the values vals
FilterChoices(vals) ==
    {NoneVal, ScalarVal(StrVal(vals[1])),
     ListVal([i \in 1..Len(vals) |-> StrVal(vals[i])])}

\* the filters dicts of the public methods: {"PriceArea": ...} and
\* {"PriceArea": ..., "ForecastType": ...}
FilterDicts ==
    {<<[key |-> FilterKeys[1], val |-> v]>> :
        v \in FilterChoices(KeyValues(FilterKeys[1]))}
    \cup {<<[key |-> FilterKeys[1], val |-> v], [key |-> FilterKeys[2], val |-> w]>> :
            v \in FilterChoices(KeyValues(FilterKeys[1])),
            w \in FilterChoices(KeyValues(FilterKeys[2]))}

ColumnChoices ==
    {AllColumns, OneColumn(ValueCols[1]), ColumnList(<<ValueCols[1]>>),
     ColumnList(ValueCols)}

\* the arguments of a public method; "None" stands for None, "" for an
\* argument the method does not have
NoArgs == [price_area |-> "", currency |-> "", version |-> "", tech |-> "",
           dk_36_code |-> "", dk_19_code |-> "", start |-> [t |-> 0, tz |-> ""]]

\* a private request method called on its own, on one of the datasets urls
BaseCall(urls) ==
    /\ api = "base"
    /\ args = NoArgs
    /\ opc = "running"
    /\ warnings = 0
    /\ url \in urls
    /\ version = ""
    /\ validated = FALSE
    /\ held = NoFrame
    /\ out = NoFrame

InitOn(urls, methods, starts, ends, dicts, cols, nvs) ==
    /\ BaseCall(urls)
    /\ pc = "call"
    /\ method \in methods
    /\ start \in starts
    /\ end \in ends
    /\ filters \in dicts
    /\ columns \in cols
    /\ nv \in nvs
    /\ params = NoParams
    /\ httpCalls = 0
    /\ response = NoResponse
    /\ df = NoFrame
    /\ result = NoFrame

\* the calls on a dataset whose records carry one UTC field
InitWith(methods, starts, ends, dicts, cols, nvs) ==
    InitOn({"dataset"}, methods, starts, ends, dicts, cols, nvs)

\* params = self._get_params(start, end, filters)
GetParams ==
    /\ pc = "call"
    /\ params' = GetParamsDict(start, end, filters)
    /\ pc' = "params"
    /\ UNCHANGED <<method, start, end, columns, filters, nv, httpCalls,
                   response, df, result>>
    /\ UNCHANGED pubVars

\* df = self._base_request(url, params): one session.get, then the parsing;
\* an exception ends the call
BaseRequest ==
    /\ pc = "params"
    /\ \E resp \in Served(url, filters, params) :
          LET f == BaseRequestFrame(resp, params, filters, nv, url)
          IN  /\ response' = resp
              /\ httpCalls' = httpCalls + 1
              /\ df' = f
              /\ result' = IF IsError(f) THEN f ELSE result
              /\ pc' = IF IsError(f) THEN "done" ELSE "fetched"
    /\ UNCHANGED <<method, start, end, columns, filters, nv, params>>
    /\ UNCHANGED pubVars

\* the rest of _select_columns_request; _pivot_request calls it with "all"
SelectColumns ==
    /\ pc = "fetched"
    /\ LET r == SelectColumnsFrame(df, start, end,
                                   IF method = "pivot" THEN AllColumns ELSE columns)
       IN  IF method = "select" \/ IsError(r)
           THEN /\ result' = r
                /\ pc' = "done"
                /\ df' = df
           ELSE /\ df' = r
                /\ pc' = "selected"
                /\ result' = result
    /\ UNCHANGED <<method, start, end, columns, filters, nv, params, httpCalls,
                   response>>
    /\ UNCHANGED pubVars

\* the rest of _pivot_request
PivotRequest ==
    /\ pc = "selected"
    /\ \E emptyRaises \in (IF Len(df.index) = 0 THEN BOOLEAN ELSE {FALSE}) :
          result' = PivotRequestFrame(df, filters, columns, emptyRaises)
    /\ pc' = "done"
    /\ UNCHANGED <<method, start, end, columns, filters, nv, params, httpCalls,
                   response, df>>
    /\ UNCHANGED pubVars

\* the calls of the pivoting methods over the whole served range
Init ==
    InitWith({"select", "pivot"}, [t : {0}, tz : {"CET"}],
             [t : {MaxT}, tz : {"CET"}], FilterDicts, ColumnChoices,
             1..Len(ValueCols))

Next == GetParams \/ BaseRequest \/ SelectColumns \/ PivotRequest

Spec == Init /\ [][Next]_vars

\* the calls with every range, in either zone, on the one-key endpoints, their
\* records carrying one UTC field or two
InitRange ==
    InitOn({"dataset", TwoTimeUrl}, {"select", "pivot"}, Timestamps,
           [t : Instants, tz : {"CET"}], {d \in FilterDicts : Len(d) = 1},
           {AllColumns, OneColumn(ValueCols[1])}, {Len(ValueCols)})

SpecRange == InitRange /\ [][Next]_vars

\* the calls of _get_params alone, with every kind of filter value
ParamValues == {StrVal("DK1"), StrVal("DK2"), IntVal(101)}

ParamFilterChoices ==
    {NoneVal} \cup {ScalarVal(v) : v \in ParamValues}
    \cup {ListVal(vs) : vs \in SeqsUpTo(ParamValues, MaxListLen)}

ParamFilterDicts ==
    {<<[key |-> FilterKeys[1], val |-> v]>> : v \in ParamFilterChoices}
    \cup {<<[key |-> FilterKeys[1], val |-> v], [key |-> FilterKeys[2], val |-> w]>> :
            v \in ParamFilterChoices, w \in ParamFilterChoices}

InitParams ==
    InitWith({"select"}, Timestamps, Timestamps, ParamFilterDicts, {AllColumns},
             {Len(ValueCols)})

NextParams == GetParams

SpecParams == InitParams /\ [][NextParams]_vars

-----------------------------------------------------------------------------
(* Properties.                                                             *)

Returned == pc = "done" /\ ~IsError(result)

\* the request was answered with a list of records
ListServed == response.status = "ok" /\ response.records = "list"

\* the labels that occur at level l of the columns of f
ObservedAt(f, l) == {f.cols[i][l] : i \in 1..Len(f.cols)}

\* a result that is indexed by time
TimeIndexed(f) == f.kind \in {"DataFrame", "Series"}

IsSortedAsc(index) == \A i \in 1..(Len(index) - 1) : index[i] <= index[i + 1]
IsStrictlyAsc(index) == \A i \in 1..(Len(index) - 1) : index[i] < index[i + 1]

\* the records of the response inside [start, end]
InRange(rows) == SelectSeq(rows, LAMBDA r : start.t <= r.t /\ r.t <= end.t)

\* C1: whenever the returned value has exactly one value column it is a flat
\* time-indexed series, for any number of rows (one row included).
C1_SqueezeLaw ==
    (Returned /\ ListServed /\ Len(result.cols) = 1) => result.kind = "Series"

\* C2: a table returned by _pivot_request with a composite column axis has no
\* level with exactly one distinct value.
C2_NoSingletonLevel ==
    (Returned /\ ListServed /\ method = "pivot" /\ result.kind = "DataFrame"
        /\ result.multi)
        => \A l \in 1..Len(result.levels) : Cardinality(ObservedAt(result, l)) # 1

\* the index of f is sorted strictly ascending, on both levels when it has
\* two: no row repeats the index value of the row before it
IndexStrictlyAsc(f) ==
    \A i \in 1..(Len(f.index) - 1) : IndexBefore(f, i, i + 1)

\* records of the response carry the same timestamps, hence the same index
\* value once set_index has acted
DuplicateRecords ==
    \E i, j \in 1..Len(response.rows) :
        /\ i # j
        /\ response.rows[i].t = response.rows[j].t
        /\ response.rows[i].t2 = response.rows[j].t2

\* records r and q cannot be told apart by the request: they carry the same
\* timestamps and the same values of every dimension left without a filter
\* value
SameCombination(r, q) ==
    /\ r.t = q.t /\ r.t2 = q.t2
    /\ \A n \in 1..Len(filters) :
            filters[n].val.kind = "none" => r.k[filters[n].key] = q.k[filters[n].key]

\* records of the response repeat a combination of timestamp and unfiltered
\* dimension
AmbiguousRecords ==
    \E i, j \in 1..Len(response.rows) :
        i # j /\ SameCombination(response.rows[i], response.rows[j])

\* rows of f repeat a combination of index value and unfiltered dimension
AmbiguousRows(f) ==
    \E i, j \in 1..Len(f.index) :
        /\ i # j /\ SameIndex(f, i, j)
        /\ \A n \in 1..Len(filters) :
                filters[n].val.kind = "none"
                    => f.keys[i][filters[n].key] = f.keys[j][filters[n].key]

\* C3: for a valid range, the table or series _select_columns_request returns
\* has an index that is sorted strictly ascending, holds no index value twice
\* and carries the zone of start, on each of its levels; and a response whose
\* records yield duplicate index values is rejected with an error, not
\* returned.
C3_StrictUniqueIndex ==
    (pc = "done" /\ method = "select" /\ start.t < end.t /\ ListServed)
        => /\ (~IsError(result) /\ TimeIndexed(result))
                => /\ IndexStrictlyAsc(result)
                   /\ \A i, j \in 1..Len(result.index) :
                            i # j => ~SameIndex(result, i, j)
                   /\ result.tz = start.tz
                   /\ Composite(result) => result.tz2 = start.tz
           /\ DuplicateRecords => IsError(result)

\* C3, uniqueness read per combination of timestamp and dimension left
\* without a filter value, as the invariant of the canonical table has it:
\* rows that differ in such a dimension may share a timestamp, any other
\* repetition is rejected.
C3_UniquePerCombination ==
    (pc = "done" /\ method = "select" /\ start.t < end.t /\ ListServed)
        => /\ (~IsError(result) /\ TimeIndexed(result)) => ~AmbiguousRows(result)
           /\ AmbiguousRecords => IsError(result)

\* C3, the zone of the second time level alone
C3_SecondLevelInZone ==
    (pc = "done" /\ method = "select" /\ start.t < end.t /\ ListServed
        /\ ~IsError(result) /\ TimeIndexed(result) /\ Composite(result))
        => result.tz2 = start.tz

\* the filter keys that occur among the column labels or level names of f
AppearsInColumns(f, key) ==
    \/ \E i \in 1..Len(f.cols) : key \in Range(f.cols[i])
    \/ key \in Range(f.names)

\* C4: no filter key that was given a value appears among the columns of the
\* returned table, whichever its position in the filters dict.
C4_FilteredKeysDropped ==
    (Returned /\ ListServed /\ result.kind = "DataFrame")
        => \A i \in 1..Len(filters) :
                    filters[i].val.kind # "none"
                        => ~AppearsInColumns(result, filters[i].key)

\* C5: on a table, _pivot_request pivots a dimension if and only if its filter
\* value is None, and never pivots a table with two rows for the same
\* timestamp and pivot-key values.
C5_PivotIffNone ==
    (pc = "selected" /\ method = "pivot" /\ ListServed /\ df.kind = "DataFrame")
        => /\ \A i \in 1..Len(filters) :
                filters[i].key \in Range(PivotKeys(df, filters))
                    <=> filters[i].val.kind = "none"
           /\ PivotKeys(df, filters) # <<>>
                => ~HasDuplicateEntries(df, PivotKeys(df, filters))

\* C6: no row outside [start, end] is in the result, and every record of the
\* response at start or at end exactly is.
C6_TruncationExact ==
    Returned
        => /\ \A i \in 1..Len(result.index) :
                start.t <= result.index[i] /\ result.index[i] <= end.t
           /\ \A j \in 1..Len(response.rows) :
                response.rows[j].t \in {start.t, end.t}
                    => response.rows[j].t \in Range(result.index)

\* C6 witness: the response held a record before start, which is gone, and a
\* record at end exactly, which is kept.
C6_Witness ==
    /\ Returned /\ start.t < end.t
    /\ \E j \in 1..Len(response.rows) : response.rows[j].t < start.t
    /\ \E j \in 1..Len(response.rows) : response.rows[j].t = end.t
    /\ end.t \in Range(result.index)

\* C7: a call with start >= end makes no HTTP request and fails.
C7_RangeRejectedBeforeRequest ==
    start.t >= end.t => (httpCalls = 0 /\ (pc = "done" => IsError(result)))

\* C8: a successful response whose 'records' is not a list, or whose records
\* have no UTC field, makes the call fail.
C8_MalformedRejected ==
    (pc = "done" /\ response.status = "ok"
        /\ response.rows # <<>>
        /\ (response.records # "list" \/ ~response.hasUTC))
        => IsError(result)

\* C9: a transport failure ends the call with that failure; there is no
\* second request and no table.
C9_TransportErrorPropagates ==
    /\ httpCalls <= 1
    /\ (pc = "done" /\ response.status \in {"http_error", "conn_error"})
          => /\ IsError(result)
             /\ result.err = (IF response.status = "http_error"
                              THEN "HTTPError" ELSE "ConnectionError")
             /\ httpCalls = 1

\* C9 witness: a pivot call whose request was answered with an error status
\* ended with HTTPError.
C9_Witness ==
    /\ pc = "done" /\ method = "pivot" /\ response.status = "http_error"
    /\ result.err = "HTTPError" /\ httpCalls = 1

\* the entries a filters dict asks for: every key whose value is not None,
\* with its values as strings
RECURSIVE ExpectedFilter(_)
ExpectedFilter(fs) ==
    IF fs = <<>> THEN <<>>
    ELSE (IF fs[1].val.kind # "none"
          THEN <<[key |-> fs[1].key,
                  values |-> [i \in 1..Len(fs[1].val.vs) |-> Str(fs[1].val.vs[i])]]>>
          ELSE <<>>)
         \o ExpectedFilter(Tail(fs))

\* C10: offset is 0, start and end are the minutes in the reference zone, the
\* filter parameter is there exactly when some value is not None, and it maps
\* exactly the keys with a value to the list of their values as strings.
C10_ParamsContract ==
    pc = "params"
        => /\ params.offset = 0
           /\ params.start.zone = "CET" /\ params.end.zone = "CET"
           /\ params.start.minute * TicksPerMinute
                <= start.t + CETOffsetAt(start.t) * TicksPerMinute
           /\ start.t + CETOffsetAt(start.t) * TicksPerMinute
                < (params.start.minute + 1) * TicksPerMinute
           /\ params.end.minute * TicksPerMinute
                <= end.t + CETOffsetAt(end.t) * TicksPerMinute
           /\ end.t + CETOffsetAt(end.t) * TicksPerMinute
                < (params.end.minute + 1) * TicksPerMinute
           /\ params.hasFilter <=> (\E i \in 1..Len(filters) : filters[i].val.kind # "none")
           /\ params.hasFilter => ParseFilter(params.filter) = ExpectedFilter(filters)

\* C15: a well-formed response whose records carry the UTC field but not the
\* local-time field beside it is parsed by _base_request without an error.
C15_LocalTimeOptional ==
    (pc \in {"fetched", "selected", "done"} /\ ListServed
        /\ response.rows # <<>> /\ response.hasUTC /\ ~response.hasDK)
        => ~IsError(df)

\* C17: the loop of _pivot_request that drops the column levels with one value
\* never raises, whatever the levels of the pivoted table hold.
C17_CollapseCompletes ==
    (pc = "done" /\ method = "pivot" /\ ListServed /\ df.kind = "DataFrame"
        /\ Len(df.index) > 0)
        => result.err \notin {"AttributeError", "IndexError"}

-----------------------------------------------------------------------------
(* The public methods of EnerginetData (src/pyenerginet/data.py).          *)

\* an argument that is None
IsNone(a) == a = "None"

\* the filters entry an argument gives: None stays None, a string is a scalar
ArgVal(a) == IF IsNone(a) THEN NoneVal ELSE ScalarVal(StrVal(a))

\* a public method that has not started: nothing is requested yet
InitPublic(apis, argss, starts, ends, nvs) ==
    /\ api \in apis
    /\ start \in starts
    /\ args \in {[a EXCEPT !.start = start] : a \in argss}
    /\ opc = "enter"
    /\ warnings = 0
    /\ url = ""
    /\ version = ""
    /\ validated = FALSE
    /\ held = NoFrame
    /\ out = NoFrame
    /\ pc = "idle"
    /\ method = "select"
    /\ end \in ends
    /\ filters = <<>>
    /\ columns = AllColumns
    /\ nv \in nvs
    /\ params = NoParams
    /\ httpCalls = 0
    /\ response = NoResponse
    /\ df = NoFrame
    /\ result = NoFrame

\* return df: the public method hands back what the private method returned
\* or raised
ReturnResult ==
    /\ opc = "running"
    /\ pc = "done"
    /\ api \in {"get_consumption_per_industry_code"}
    /\ out' = result
    /\ opc' = "returned"
    /\ UNCHANGED reqVars
    /\ UNCHANGED <<api, args, warnings, url, version, validated, held>>

-----------------------------------------------------------------------------
(* get_consumption_per_industry_code                                       *)

\* if dk_36_code is not None and dk_19_code is not None: warn(warning_text)
IndustryWarns(dk36, dk19) == IF ~IsNone(dk36) /\ ~IsNone(dk19) THEN 1 ELSE 0

\* filters = {"DK36Code": dk_36_code,
\*            "DK19Code": dk_19_code if dk_36_code is None else None}
IndustryFiltersBoth(dk36, dk19) ==
    <<[key |-> "DK36Code", val |-> ArgVal(dk36)],
      [key |-> "DK19Code", val |-> ArgVal(dk19)]>>
IndustryFilters(dk36, dk19) ==
    <<[key |-> "DK36Code", val |-> ArgVal(dk36)],
      [key |-> "DK19Code", val |-> IF IsNone(dk36) THEN ArgVal(dk19) ELSE NoneVal]>>

\* the method up to its call of _select_columns_request(url, start, end,
\* columns="all", filters=filters)
GetConsumptionPerIndustryCode ==
    /\ api = "get_consumption_per_industry_code"
    /\ opc = "enter"
    /\ warnings' = warnings + IndustryWarns(args.dk_36_code, args.dk_19_code)
    /\ filters' = IndustryFilters(args.dk_36_code, args.dk_19_code)
    /\ url' = "ConsumptionDK3619codehour"
    /\ method' = "select"
    /\ columns' = AllColumns
    /\ pc' = "call"
    /\ opc' = "running"
    /\ UNCHANGED <<start, end, nv, params, httpCalls, response, df, result>>
    /\ UNCHANGED <<api, args, version, validated, held, out>>

\* the industry codes a caller may pass
IndustryArgs ==
    {[NoArgs EXCEPT !.dk_36_code = a, !.dk_19_code = b] :
        a \in {"None"} \cup Range(KeyValues("DK36Code")),
        b \in {"None"} \cup Range(KeyValues("DK19Code"))}

InitIndustry ==
    InitPublic({"get_consumption_per_industry_code"}, IndustryArgs,
               [t : {0}, tz : Zones], [t : {MaxT}, tz : {"CET"}], {1})

NextIndustry ==
    GetConsumptionPerIndustryCode \/ GetParams \/ BaseRequest \/ SelectColumns
        \/ ReturnResult

SpecIndustry == InitIndustry /\ [][NextIndustry]_vars

\* the filter parameter get_consumption_per_industry_code is to send
IndustryExpected(dk36, dk19) ==
    IF ~IsNone(dk36) THEN <<[key |-> "DK36Code", values |-> <<dk36>>]>>
    ELSE IF ~IsNone(dk19) THEN <<[key |-> "DK19Code", values |-> <<dk19>>]>>
    ELSE <<>>

\* C13: get_consumption_per_industry_code warns once exactly when both codes
\* are given, and never otherwise; the request filters on DK36Code alone when
\* it is given, on DK19Code alone when only that is given, and on nothing when
\* neither is.
C13_IndustryWarningAndFilter ==
    /\ opc = "enter" => warnings = 0
    /\ opc # "enter"
        => warnings = (IF ~IsNone(args.dk_36_code) /\ ~IsNone(args.dk_19_code)
                       THEN 1 ELSE 0)
    /\ pc \in {"params", "fetched", "done"}
        => /\ ParseFilter(params.filter)
                = IndustryExpected(args.dk_36_code, args.dk_19_code)
           /\ params.hasFilter
                <=> (~IsNone(args.dk_36_code) \/ ~IsNone(args.dk_19_code))

\* C13 witness: a call with both codes returned a table after one warning and
\* a request filtered on DK36Code only.
C13_Witness ==
    /\ opc = "returned" /\ ~IsError(out)
    /\ ~IsNone(args.dk_36_code) /\ ~IsNone(args.dk_19_code)
    /\ warnings = 1 /\ httpCalls = 1
    /\ ParseFilter(params.filter)
         = <<[key |-> "DK36Code", values |-> <<args.dk_36_code>>]>>

-----------------------------------------------------------------------------
(* get_elspot_prices                                                       *)

\* the characters of a label: the value columns of Elspotprices are
\* SpotPriceDKK and SpotPriceEUR
CharsOf(label) ==
    CASE label = "V1"  -> <<"S", "p", "o", "t", "P", "r", "i", "c", "e", "D", "K", "K">>
      [] label = "V2"  -> <<"S", "p", "o", "t", "P", "r", "i", "c", "e", "E", "U", "R">>
      [] label = "DK1" -> <<"D", "K", "1">>
      [] label = "DK2" -> <<"D", "K", "2">>
      [] label = "DKK" -> <<"D", "K", "K">>
      [] label = "EUR" -> <<"E", "U", "R">>
      [] label = "PriceArea" -> <<"P", "r", "i", "c", "e", "A", "r", "e", "a">>
      [] OTHER -> <<label>>

\* str(x) of a column label: the name itself on a flat axis, the printed tuple
\* on a MultiIndex
LabelStr(t, multi) ==
    IF ~multi THEN CharsOf(t[1])
    ELSE <<"(">> \o Join(<<",", " ">>,
                         [i \in 1..Len(t) |-> <<"'">> \o CharsOf(t[i]) \o <<"'">>])
         \o <<")">>

\* sub in text
IsSubstring(sub, text) ==
    \E i \in 1..(Len(text) - Len(sub) + 1) : SubSeq(text, i, i + Len(sub) - 1) = sub

\* obj.filter(like=currency): keeps the labels of the info axis (the columns
\* of a table, the index of a series) that contain the text; a time index
\* holds no such label, a number has no filter method
FilterLike(f, currency) ==
    CASE f.kind \in {"DataFrame", "RowSeries"} ->
            [f EXCEPT !.cols = SelectSeq(f.cols, LAMBDA t :
                                    IsSubstring(CharsOf(currency), LabelStr(t, f.multi)))]
      [] f.kind = "Series" -> TakeRows(f, <<>>)
      [] f.kind = "Scalar" -> Raise("AttributeError")
      [] OTHER -> f

\* the method up to its call of _pivot_request(url, start, end,
\* filters={"PriceArea": price_area})
GetElspotPrices ==
    /\ api = "get_elspot_prices"
    /\ opc = "enter"
    /\ filters' = <<[key |-> "PriceArea", val |-> ArgVal(args.price_area)]>>
    /\ url' = "Elspotprices"
    /\ method' = "pivot"
    /\ columns' = AllColumns
    /\ pc' = "call"
    /\ opc' = "running"
    /\ UNCHANGED <<start, end, nv, params, httpCalls, response, df, result>>
    /\ UNCHANGED <<api, args, warnings, version, validated, held, out>>

\* df = df.filter(like=currency).squeeze(); return df
ElspotFilterLike ==
    /\ api = "get_elspot_prices"
    /\ opc = "running"
    /\ pc = "done"
    /\ out' = IF IsError(result) THEN result
              ELSE LET f == FilterLike(result, args.currency)
                   IN  IF IsError(f) THEN f ELSE Squeeze(f)
    /\ opc' = "returned"
    /\ UNCHANGED reqVars
    /\ UNCHANGED <<api, args, warnings, url, version, validated, held>>

ElspotArgs ==
    {[NoArgs EXCEPT !.price_area = a, !.currency = c] :
        a \in {"None"} \cup Range(KeyValues("PriceArea")), c \in {"DKK", "EUR"}}

InitElspot ==
    InitPublic({"get_elspot_prices"}, ElspotArgs, [t : {0}, tz : Zones],
               [t : {MaxT}, tz : {"CET"}], {Len(ValueCols)})

NextElspot ==
    GetElspotPrices \/ GetParams \/ BaseRequest \/ SelectColumns \/ PivotRequest
        \/ ElspotFilterLike

SpecElspot == InitElspot /\ [][NextElspot]_vars

\* the value column that holds the price in a currency
PriceColumn(currency) == IF currency = "DKK" THEN ValueCols[1] ELSE ValueCols[2]

\* the price areas among the records of the response inside [start, end]
AreasInRange ==
    {InRange(response.rows)[i].k["PriceArea"] : i \in 1..Len(InRange(response.rows))}

\* C12: with no price_area and two or more areas in the data, get_elspot_prices
\* returns a table with one column per area present, of the requested currency
\* only and distinctly named; with one price_area it returns a flat series of
\* that currency's price over the timestamps of the data.
C12_ElspotShape ==
    (opc = "returned" /\ ListServed /\ response.hasUTC /\ response.hasDK
        /\ InRange(response.rows) # <<>>)
        => IF IsNone(args.price_area)
           THEN Cardinality(AreasInRange) >= 2
                    => /\ out.kind = "DataFrame"
                       /\ Range(out.cols)
                            = {<<PriceColumn(args.currency), a>> : a \in AreasInRange}
                       /\ Len(out.cols) = Cardinality(AreasInRange)
           ELSE /\ out.kind = "Series"
                /\ out.cols = <<<<PriceColumn(args.currency)>>>>
                /\ Range(out.index) = {InRange(response.rows)[i].t :
                                            i \in 1..Len(InRange(response.rows))}
                /\ IsStrictlyAsc(out.index)

-----------------------------------------------------------------------------
(* get_data(start, end, "production", "actual", price_area, tech, version)  *)

\* a cell of a pivoted table holds a value when the response has a record for
\* its timestamp and its label; the other cells are NaN
CellPresent(resp, t, label) ==
    \/ label[1] \in Range(ValueColsOf(ValidatedUrl)) \cup Range(ValueColsOf(UnvalidatedUrl))
    \/ \E j \in 1..Len(resp.rows) :
          /\ resp.rows[j].t = t
          /\ \E key \in DOMAIN resp.rows[j].k : resp.rows[j].k[key] = label[1]

\* obj.dropna() on what get_prod_cons returned for the response resp: the rows
\* of a table with a NaN go; a number has no dropna method
DropNa(f, resp) ==
    CASE IsError(f) -> f
      [] f.kind = "Scalar" -> Raise("AttributeError")
      [] f.kind = "DataFrame" ->
            TakeRows(f, SelectSeq([i \in 1..Len(f.index) |-> i],
                                  LAMBDA i : \A c \in Range(f.cols) :
                                                CellPresent(resp, f.index[i], c)))
      [] OTHER -> f

\* df.index[-1] >= end - pd.to_timedelta("1h"): "" when it can be evaluated;
\* an empty index has no last entry, and the index of a one-row result holds
\* column labels, which do not compare with a timestamp
DataCompleteError(f) ==
    CASE f.kind = "RowSeries" -> IF Len(f.cols) = 0 THEN "IndexError" ELSE "TypeError"
      [] Len(f.index) = 0 -> "IndexError"
      [] OTHER -> ""

DataCompleteAlways(f, e) == TRUE
DataComplete(f, e) == f.index[Len(f.index)] >= e.t - Hour

\* the rows of f, each marked with the dataset u it comes from
FromSource(f, u) == [f EXCEPT !.keys = [i \in 1..Len(f.index) |-> [source |-> u]]]

\* the column label 0 that pd.concat gives a series it does not know by name
UnnamedColumn == "0"

\* the name of a one-row result: the timestamp of its row
TimestampLabel(t) == "Timestamp(" \o ToString(t) \o ")"

\* the column a series makes beside a table in pd.concat([...]) along the rows.
\* The pandas release decides (the repository asks for no particular one):
\* the column is labelled 0, or, when keepsName, takes the name of the series
SeriesColumn(f, keepsName) ==
    IF ~keepsName THEN <<<<UnnamedColumn>>>>
    ELSE IF f.kind = "RowSeries" THEN <<<<TimestampLabel(f.index[1])>>>>
    ELSE f.cols

\* the columns of an operand of pd.concat
ConcatColumns(f, keepsName) ==
    IF f.kind = "DataFrame" THEN f.cols ELSE SeriesColumn(f, keepsName)

\* a series without a name
NoName == <<>>

\* the columns of both operands, in the order in which they first occur
UnionColumns(vc, wc) == vc \o SelectSeq(wc, LAMBDA c : c \notin Range(vc))

\* pd.concat([df, df_unval]).dropna(), where df holds no NaN and df_unval is
\* what get_prod_cons returned for the response resp.  Two series are stacked.
\* They keep their name when it is the same, and have none otherwise.  Two
\* tables are stacked over the union of their columns, and so are a series and
\* a table, the series being one column: the rows of an operand that lacks a
\* column of the union hold a NaN and go.  A one-row result is a series over
\* column labels: stacked under a series its labels join the timestamps in the
\* index; beside a table its labels are rows that lack the table's columns.
\* An index that holds labels and timestamps has no zone.  A number cannot be
\* concatenated.
ConcatDropNa(d, u, resp, keepsName) ==
    LET v == FromSource(d, ValidatedUrl)
        w == FromSource(u, UnvalidatedUrl)
        vc == ConcatColumns(d, keepsName)
        wc == ConcatColumns(u, keepsName)
        union == UnionColumns(vc, wc)
        keepV == IF Range(vc) = Range(union) THEN v ELSE TakeRows(v, <<>>)
        full  == DropNa(w, resp)
        keepW == IF Range(wc) = Range(union) /\ u.kind # "RowSeries"
                 THEN full ELSE TakeRows(w, <<>>)
    IN  CASE u.kind = "Scalar" -> Raise("TypeError")
          [] d.kind = "Series" /\ u.kind = "Series" ->
                [v EXCEPT !.index = v.index \o w.index, !.keys = v.keys \o w.keys,
                          !.cols = IF v.cols = w.cols THEN v.cols ELSE <<NoName>>]
          [] d.kind = "Series" /\ u.kind = "RowSeries" ->
                [v EXCEPT !.kind = "MixedIndex", !.tz = "", !.cols = <<NoName>>,
                          !.keys = v.keys \o
                            [i \in 1..Len(u.cols) |-> [source |-> UnvalidatedUrl]]]
          [] d.kind = "DataFrame" /\ u.kind = "DataFrame" ->
                [keepV EXCEPT !.index = keepV.index \o keepW.index,
                              !.keys = keepV.keys \o keepW.keys]
          [] OTHER ->
                [v EXCEPT !.kind = "DataFrame", !.cols = union,
                          !.tz = IF "RowSeries" \in {d.kind, u.kind} THEN "" ELSE v.tz,
                          !.multi = FALSE, !.levels = <<>>, !.names = <<>>,
                          !.index = keepV.index \o keepW.index,
                          !.keys = keepV.keys \o keepW.keys]

\* df[~df.index.duplicated()]: of the rows with one index value the first stays
Dedupe(f) ==
    IF IsError(f) \/ f.kind = "MixedIndex" THEN f
    ELSE TakeRows(f, SelectSeq([i \in 1..Len(f.index) |-> i],
                               LAMBDA i : \A j \in 1..(i - 1) : f.index[j] # f.index[i]))

\* version == "bestof" or version == "validated"
WantsValidated(v) == v = "bestof" \/ v = "validated"

\* get_data up to its first call of get_prod_cons; without tech it raises
GetData ==
    /\ api = "get_data"
    /\ opc = "enter"
    /\ IF IsNone(args.tech)
       THEN /\ out' = Raise("KeyError")
            /\ opc' = "returned"
            /\ UNCHANGED <<version, validated, url, filters, method, columns, pc>>
       ELSE /\ version' = args.version
            /\ validated' = WantsValidated(args.version)
            /\ url' = IF WantsValidated(args.version) THEN ValidatedUrl
                      ELSE UnvalidatedUrl
            /\ filters' = <<[key |-> "PriceArea", val |-> ArgVal(args.price_area)]>>
            /\ method' = "pivot"
            /\ columns' = OneColumn(IF WantsValidated(args.version)
                                     THEN TechNamesValidated(args.tech)
                                     ELSE TechNamesUnvalidated(args.tech))
            /\ pc' = "call"
            /\ opc' = IF WantsValidated(args.version) THEN "validated"
                      ELSE "unvalidated"
            /\ out' = out
    /\ UNCHANGED <<start, end, nv, params, httpCalls, response, df, result>>
    /\ UNCHANGED <<api, args, warnings, held>>

\* the try block after get_prod_cons(validated=True) came back, its except
\* clause, and the start of the second call of get_prod_cons if one is needed
GetDataValidated ==
    /\ api = "get_data"
    /\ opc = "validated"
    /\ pc = "done"
    /\ LET d == DropNa(result, response)
           failed == IsError(d)
                       \/ (version = "bestof" /\ DataCompleteError(d) # "")
           complete == version # "bestof" \/ DataComplete(d, end)
       IN  IF failed
           THEN /\ validated' = FALSE
                /\ version' = "unvalidated"
                /\ held' = Frame("DataFrame", "naive", <<>>, <<>>, <<>>, FALSE,
                                 <<>>, <<>>)
                /\ warnings' = warnings + 1
                /\ url' = UnvalidatedUrl
                /\ columns' = OneColumn(TechNamesUnvalidated(args.tech))
                /\ pc' = "call"
                /\ opc' = "unvalidated"
                /\ UNCHANGED <<start, out>>
           ELSE IF complete
           THEN /\ held' = d
                /\ out' = d
                /\ opc' = "returned"
                /\ UNCHANGED <<validated, version, warnings, url, pc, start,
                               columns>>
           ELSE /\ validated' = FALSE
                /\ held' = d
                /\ start' = [t |-> d.index[Len(d.index)], tz |-> d.tz]
                /\ url' = UnvalidatedUrl
                /\ columns' = OneColumn(TechNamesUnvalidated(args.tech))
                /\ pc' = "call"
                /\ opc' = "unvalidated"
                /\ UNCHANGED <<version, warnings, out>>
    /\ UNCHANGED <<method, end, filters, nv, params, httpCalls, response, df,
                   result>>
    /\ UNCHANGED <<api, args>>

\* the operands of pd.concat are a table and a series
SeriesBesideTable(d, u) ==
    /\ "DataFrame" \in {d.kind, u.kind}
    /\ {d.kind, u.kind} \cap {"Series", "RowSeries"} # {}

\* after get_prod_cons(validated=False) came back: its exception propagates;
\* for "bestof" the two results are appended and the duplicates removed,
\* keepsName telling what the installed pandas does with a series beside a table
GetDataUnvalidated ==
    /\ api = "get_data"
    /\ opc = "unvalidated"
    /\ pc = "done"
    /\ \E keepsName \in (IF ~IsError(result) /\ version = "bestof"
                                /\ SeriesBesideTable(held, result)
                           THEN BOOLEAN ELSE {FALSE}) :
          out' = IF IsError(result) THEN result
                 ELSE IF version = "bestof"
                      THEN Dedupe(ConcatDropNa(held, result, response, keepsName))
                 ELSE result
    /\ opc' = "returned"
    /\ UNCHANGED reqVars
    /\ UNCHANGED <<api, args, warnings, url, version, validated, held>>

DataArgs ==
    {[NoArgs EXCEPT !.price_area = a, !.tech = t, !.version = v] :
        a \in {"None", KeyValues("PriceArea")[1]}, t \in {"None", "ofw"},
        v \in {"None", "validated", "unvalidated", "bestof"}}

\* the calls over the hours of the dataset, from the first hour sharp or from
\* a little later in its first minute
InitData ==
    InitPublic({"get_data"}, DataArgs, [t : {0, 1}, tz : {"CET"}],
               [t : {MaxHours * Hour}, tz : {"CET"}], {Len(ValueCols)})

NextData ==
    GetData \/ GetParams \/ BaseRequest \/ SelectColumns \/ PivotRequest
        \/ GetDataValidated \/ GetDataUnvalidated

SpecData == InitData /\ [][NextData]_vars


\* every public method modelled, with every argument combination
InitPublicMethods == InitIndustry \/ InitElspot \/ InitData

NextPublicMethods ==
    \/ GetConsumptionPerIndustryCode \/ ReturnResult
    \/ GetElspotPrices \/ ElspotFilterLike
    \/ GetData \/ GetDataValidated \/ GetDataUnvalidated
    \/ GetParams \/ BaseRequest \/ SelectColumns \/ PivotRequest

SpecPublicMethods == InitPublicMethods /\ [][NextPublicMethods]_vars

\* get_data was called for production actuals, with a technology
ActualsCall == api = "get_data" /\ ~IsNone(args.tech)

\* C11 (as stated): a public method that returned or raised has made exactly
\* one HTTP GET, get_data for production actuals included.
C11_ExactlyOneGet ==
    (opc = "returned" /\ (api = "get_data" => ActualsCall)) => httpCalls = 1

\* C11 (amended): get_consumption_per_industry_code and get_elspot_prices make
\* one GET per call.  get_data for production actuals makes one GET, and a
\* second one, to the provisional dataset, exactly when version is 'validated'
\* or 'bestof' and the validated fetch failed (the warning was emitted), or
\* version is 'bestof' and the last validated timestamp is earlier than end
\* minus one hour; it never makes a third.  Without tech it makes none.
C11_GetsPerCall ==
    /\ httpCalls <= 2
    /\ (api # "get_data" /\ opc = "returned") => httpCalls = 1
    /\ (api = "get_data" /\ ~ActualsCall) => httpCalls = 0
    /\ (ActualsCall /\ opc = "returned")
          => /\ httpCalls \in {1, 2}
             /\ httpCalls = 2
                  <=> /\ WantsValidated(args.version)
                      /\ \/ warnings = 1
                         \/ /\ args.version = "bestof"
                            /\ held.index[Len(held.index)] < end.t - Hour
             /\ httpCalls = 2 => url = UnvalidatedUrl

\* C11 witness: a 'bestof' call whose validated data ended early returned a
\* result after two GETs and no warning.
C11_Witness ==
    /\ ActualsCall /\ opc = "returned" /\ args.version = "bestof"
    /\ httpCalls = 2 /\ warnings = 0 /\ ~IsError(out)
    /\ held.index[Len(held.index)] < end.t - Hour

\* C14: get_data for production actuals with version omitted does what
\* version='bestof' does: its first request goes to the validated dataset.
C14_DefaultIsBestof ==
    (ActualsCall /\ args.version \in {"None", "bestof"} /\ httpCalls = 0
        /\ pc = "call")
        => (url = ValidatedUrl /\ opc = "validated")


\* the records of the response inside the range the caller asked for
InRequestedRange(rows) == SelectSeq(rows, LAMBDA r : args.start.t <= r.t /\ r.t <= end.t)

\* the validated fetch of the call is over and its response still at hand
ValidatedFetchOver ==
    /\ ActualsCall /\ WantsValidated(args.version) /\ httpCalls = 1
    /\ (opc = "returned" \/ (opc = "unvalidated" /\ pc = "call"))

\* C16: when the validated fetch of get_data fails in transport or yields no
\* rows for the requested range, the call warns once and goes on to fetch the
\* provisional data for the range the caller asked for, and returns just that;
\* a failure of the provisional fetch is raised.
C16_FallbackOnFailure ==
    /\ (ValidatedFetchOver
            /\ (response.status \in {"http_error", "conn_error"}
                    \/ InRequestedRange(response.rows) = <<>>))
          => /\ opc = "unvalidated" /\ url = UnvalidatedUrl
             /\ warnings = 1
             /\ start = args.start
    /\ (ActualsCall /\ opc = "returned" /\ warnings = 1)
          => /\ httpCalls = 2
             /\ start = args.start
             /\ out = result
    /\ (ActualsCall /\ opc = "returned" /\ httpCalls = 2
            /\ response.status \in {"http_error", "conn_error"})
          => IsError(out)


\* a 'bestof' call that found the validated data incomplete and has returned
CompletedFromProvisional ==
    /\ ActualsCall /\ args.version = "bestof" /\ opc = "returned"
    /\ httpCalls = 2 /\ warnings = 0

\* C18: when 'bestof' finds the validated data incomplete, the provisional
\* request starts at the last validated timestamp, and the returned result is
\* indexed by timestamps in strictly ascending order (no duplicates), holds
\* every validated timestamp with its validated value, and takes provisional
\* values only for timestamps the validated data does not have.
C18_BestOfMerge ==
    CompletedFromProvisional
        => /\ start.t = held.index[Len(held.index)]
           /\ params.start = FormatMinute(start)
           /\ ~IsError(out)
                => /\ out.kind \in {"Series", "DataFrame"}
                   /\ IsStrictlyAsc(out.index)
                   /\ \A i \in 1..Len(held.index) :
                        \E j \in 1..Len(out.index) :
                            /\ out.index[j] = held.index[i]
                            /\ out.keys[j].source = ValidatedUrl
                   /\ \A j \in 1..Len(out.index) :
                        out.keys[j].source = UnvalidatedUrl
                            => out.index[j] \notin Range(held.index)

====
